---- MODULE Spec2Model ----
(***************************************************************************)
(* Booking, payment and availability logic of the hotel application        *)
(* (src/hotel/models.py, src/hotel/serializers.py, src/hotel/views.py).    *)
(*                                                                         *)
(* The persistent store is the pair of tables `bookings` and `payments`;   *)
(* a booking's primary key is its position in `bookings` (rows are never   *)
(* deleted by the modelled endpoints).  `last` is the response of the most *)
(* recently completed request, `reqs` the requests that are in flight in   *)
(* the interleaved specification.                                          *)
(***************************************************************************)
EXTENDS Integers, Sequences, FiniteSets, TLC

VARIABLES bookings, payments, reviews, last, reqs

vars == <<bookings, payments, reviews, last, reqs>>

-----------------------------------------------------------------------------
(* Bounds of the model *)

MaxDay == 3

MaxBookings == 2

MaxPayments == 2

MaxInflight == 2
MaxTime == 2

Days == 1..MaxDay

-----------------------------------------------------------------------------
(* Absent request keys and Python's None *)

NoId == 0

NoDate == 0

NoInt == -1

NoStatus == "ABSENT"

-----------------------------------------------------------------------------
(* models.py: choices and the inventory *)

ROLE_CHOICES == {"customer", "staff", "admin"}

STATUS_CHOICES == {"PENDING", "CONFIRMED", "CHECKED_IN", "CHECKED_OUT", "CANCELLED", "NO_SHOW"}

PAYMENT_STATUS == {"PENDING", "COMPLETED", "FAILED", "REFUNDED", "CANCELLED"}

Users == {"alice", "bob", "sam", "ada"}

Role(u) == CASE u = "sam" -> "staff" [] u = "ada" -> "admin" [] OTHER -> "customer"

RoomTypes ==
  [t \in 1..2 |-> IF t = 1 THEN [hotel |-> 1, base_price |-> 150, capacity |-> 2]
                           ELSE [hotel |-> 2, base_price |-> 150, capacity |-> 1]]

Rooms ==
  [r \in 1..6 |-> CASE r = 1 -> [room_type |-> 1, status |-> "AVAILABLE", is_active |-> TRUE]
                    [] r = 2 -> [room_type |-> 2, status |-> "AVAILABLE", is_active |-> TRUE]
                    [] r = 3 -> [room_type |-> 1, status |-> "MAINTENANCE", is_active |-> TRUE]
                    [] r = 4 -> [room_type |-> 1, status |-> "AVAILABLE", is_active |-> FALSE]
                    [] r = 5 -> [room_type |-> 1, status |-> "OCCUPIED", is_active |-> TRUE]
                    [] OTHER -> [room_type |-> 2, status |-> "CLEANING", is_active |-> TRUE]]

RoomIds == DOMAIN Rooms

price_per_night(r) == RoomTypes[Rooms[r].room_type].base_price

Capacity(r) == RoomTypes[Rooms[r].room_type].capacity

-----------------------------------------------------------------------------
(* serializers.py: BookingSerializer *)

RoomQuerysetActiveOnly == {r \in RoomIds : Rooms[r].is_active}

\* room_id = PrimaryKeyRelatedField(queryset=Room.objects.filter(is_active=True, status='AVAILABLE'))
RoomQueryset == {r \in RoomIds : Rooms[r].is_active /\ Rooms[r].status = "AVAILABLE"}

BlockingStatusesAll == STATUS_CHOICES

\* status__in=['CONFIRMED', 'CHECKED_IN', 'PENDING']
BlockingStatuses == {"CONFIRMED", "CHECKED_IN", "PENDING"}

\* The conflict query with closed ranges
ConflictingBookingsClosedRange(bks, room, check_in, check_out, instance) ==
  {i \in DOMAIN bks : /\ bks[i].room = room
                      /\ bks[i].check_in_date <= check_out
                      /\ bks[i].check_out_date >= check_in
                      /\ bks[i].status \in BlockingStatuses
                      /\ i # instance}

\* The conflict query with 'PENDING' left out of the status list
ConflictingBookingsConfirmedOnly(bks, room, check_in, check_out, instance) ==
  {i \in DOMAIN bks : /\ bks[i].room = room
                      /\ bks[i].check_in_date < check_out
                      /\ bks[i].check_out_date > check_in
                      /\ bks[i].status \in {"CONFIRMED", "CHECKED_IN"}
                      /\ i # instance}

\* Booking.objects.filter(room=room, check_in_date__lt=check_out,
\*   check_out_date__gt=check_in, status__in=[...]).exclude(id=instance id or None)
ConflictingBookings(bks, room, check_in, check_out, instance) ==
  {i \in DOMAIN bks : /\ bks[i].room = room
                      /\ bks[i].check_in_date < check_out
                      /\ bks[i].check_out_date > check_in
                      /\ bks[i].status \in BlockingStatuses
                      /\ i # instance}

\* Field-level validation run by is_valid() before validate(): required keys
\* (unless partial), the room_id queryset, the non-negative integer fields.
FieldErrors(data, partial) ==
  \/ (~partial /\ (data.room = NoId \/ data.check_in_date = NoDate \/ data.check_out_date = NoDate))
  \/ (data.room # NoId /\ data.room \notin RoomQueryset)
  \/ (data.adults # NoInt /\ data.adults < 0)
  \/ (data.children # NoInt /\ data.children < 0)
  \/ (data.status # NoStatus /\ data.status \notin STATUS_CHOICES)

ValidateAdultsOnly(bks, data, instance) ==
  LET check_in == data.check_in_date
      check_out == data.check_out_date
      room == data.room
      adults == IF data.adults = NoInt THEN 1 ELSE data.adults
  IN  IF check_in # NoDate /\ check_out # NoDate /\ check_in >= check_out
        THEN "invalid_range"
      ELSE IF check_in # NoDate /\ check_out # NoDate /\ check_out - check_in < 1
        THEN "stay_too_short"
      ELSE IF room # NoId /\ adults > Capacity(room)
        THEN "capacity_exceeded"
      ELSE IF /\ room # NoId
              /\ check_in # NoDate /\ check_out # NoDate
              /\ ConflictingBookings(bks, room, check_in, check_out, instance) # {}
        THEN "room_unavailable"
      ELSE "ok"

\* BookingSerializer.validate; the result names the ValidationError raised, "ok" if none
Validate(bks, data, instance) ==
  LET check_in == data.check_in_date
      check_out == data.check_out_date
      room == data.room
      adults == IF data.adults = NoInt THEN 1 ELSE data.adults
      children == IF data.children = NoInt THEN 0 ELSE data.children
  IN  IF check_in # NoDate /\ check_out # NoDate /\ check_in >= check_out
        THEN "invalid_range"
      ELSE IF check_in # NoDate /\ check_out # NoDate /\ check_out - check_in < 1
        THEN "stay_too_short"
      ELSE IF room # NoId /\ adults + children > Capacity(room)
        THEN "capacity_exceeded"
      ELSE IF /\ room # NoId
              /\ check_in # NoDate /\ check_out # NoDate
              /\ ConflictingBookings(bks, room, check_in, check_out, instance) # {}
        THEN "room_unavailable"
      ELSE "ok"

\* is_valid(): field errors first, then validate()
IsValid(bks, data, instance, partial) ==
  IF FieldErrors(data, partial) THEN "invalid_field" ELSE Validate(bks, data, instance)

\* Booking.save: total_amount is computed only while it is unset
SaveBooking(b) ==
  IF b.total_amount = 0 /\ b.room # NoId /\ b.check_in_date # NoDate /\ b.check_out_date # NoDate
     /\ b.check_out_date - b.check_in_date > 0
    THEN [b EXCEPT !.total_amount = (b.check_out_date - b.check_in_date) * price_per_night(b.room)]
    ELSE b

\* BookingSerializer.create: model defaults for the keys the request omits,
\* user defaults to the authenticated actor
NewBooking(actor, data) ==
  SaveBooking([user |-> IF data.user = "" THEN actor ELSE data.user,
               room |-> data.room,
               check_in_date |-> data.check_in_date,
               check_out_date |-> data.check_out_date,
               adults |-> IF data.adults = NoInt THEN 1 ELSE data.adults,
               children |-> IF data.children = NoInt THEN 0 ELSE data.children,
               status |-> IF data.status = NoStatus THEN "PENDING" ELSE data.status,
               total_amount |-> 0])

\* ModelSerializer.update: every supplied key is assigned, then instance.save()
UpdatedBooking(b, data) ==
  SaveBooking([user |-> IF data.user = "" THEN b.user ELSE data.user,
               room |-> IF data.room = NoId THEN b.room ELSE data.room,
               check_in_date |-> IF data.check_in_date = NoDate THEN b.check_in_date ELSE data.check_in_date,
               check_out_date |-> IF data.check_out_date = NoDate THEN b.check_out_date ELSE data.check_out_date,
               adults |-> IF data.adults = NoInt THEN b.adults ELSE data.adults,
               children |-> IF data.children = NoInt THEN b.children ELSE data.children,
               status |-> IF data.status = NoStatus THEN b.status ELSE data.status,
               total_amount |-> b.total_amount])

-----------------------------------------------------------------------------
(* views.py: permissions *)

\* The role test with every authenticated role let through
IsElevatedAnyRole(actor) == Role(actor) \in ROLE_CHOICES

\* request.user.role in ['staff', 'admin']
IsElevated(actor) == Role(actor) \in {"staff", "admin"}

\* BookingDetailAPIView.get_object: "not_found", "permission_denied" or "ok"
GetObject(bks, actor, pk) ==
  IF pk \notin DOMAIN bks THEN "not_found"
  ELSE IF ~IsElevated(actor) /\ bks[pk].user # actor THEN "permission_denied"
  ELSE "ok"

-----------------------------------------------------------------------------
(* Responses *)

Response(op, pk, code, error) ==
  [op |-> op, pk |-> pk, code |-> code, error |-> error]

-----------------------------------------------------------------------------
(* Request data *)

BookingData(room, check_in, check_out, adults, children, status, user) ==
  [room |-> room, check_in_date |-> check_in, check_out_date |-> check_out,
   adults |-> adults, children |-> children, status |-> status, user |-> user]

-----------------------------------------------------------------------------
(* views.py: the booking endpoints, one request per step *)

\* BookingListCreateAPIView.post
CreateBooking(actor, data) ==
  LET err == IsValid(bookings, data, NoId, FALSE) IN
  /\ (err = "ok" => Len(bookings) < MaxBookings)
  /\ IF err = "ok"
       THEN /\ bookings' = Append(bookings, NewBooking(actor, data))
            /\ last' = Response("create", Len(bookings) + 1, 201, "none")
       ELSE /\ bookings' = bookings
            /\ last' = Response("create", NoId, 400, err)
  /\ UNCHANGED <<payments, reviews, reqs>>

\* BookingDetailAPIView.put
UpdateBooking(actor, pk, data) ==
  LET got == GetObject(bookings, actor, pk)
      err == IsValid(bookings, data, pk, TRUE)
  IN
  /\ IF got = "not_found"
       THEN /\ bookings' = bookings
            /\ last' = Response("put", pk, 404, got)
     ELSE IF got = "permission_denied"
       THEN /\ bookings' = bookings
            /\ last' = Response("put", pk, 403, got)
     ELSE IF err # "ok"
       THEN /\ bookings' = bookings
            /\ last' = Response("put", pk, 400, err)
     ELSE /\ bookings' = [bookings EXCEPT ![pk] = UpdatedBooking(@, data)]
          /\ last' = Response("put", pk, 200, "none")
  /\ UNCHANGED <<payments, reviews, reqs>>

CancelBookingHardDelete(actor, pk) ==
  LET got == GetObject(bookings, actor, pk)
  IN
  /\ IF got = "not_found"
       THEN /\ UNCHANGED <<bookings, payments, reviews>>
            /\ last' = Response("delete", pk, 404, got)
     ELSE IF got = "permission_denied"
       THEN /\ UNCHANGED <<bookings, payments, reviews>>
            /\ last' = Response("delete", pk, 403, got)
     ELSE /\ bookings' = [i \in 1..(Len(bookings) - 1) |->
                            IF i < pk THEN bookings[i] ELSE bookings[i + 1]]
          /\ payments' = SelectSeq(payments, LAMBDA p : p.booking # pk)
          /\ reviews' = SelectSeq(reviews, LAMBDA r : r.booking # pk)
          /\ last' = Response("delete", pk, 204, "none")
  /\ UNCHANGED reqs

\* BookingDetailAPIView.delete
CancelBooking(actor, pk) ==
  LET got == GetObject(bookings, actor, pk)
  IN
  /\ IF got = "not_found"
       THEN /\ bookings' = bookings
            /\ last' = Response("delete", pk, 404, got)
     ELSE IF got = "permission_denied"
       THEN /\ bookings' = bookings
            /\ last' = Response("delete", pk, 403, got)
     ELSE /\ bookings' = [bookings EXCEPT ![pk] = SaveBooking([@ EXCEPT !.status = "CANCELLED"])]
          /\ last' = Response("delete", pk, 204, "none")
  /\ UNCHANGED <<payments, reviews, reqs>>

\* BookingConfirmAPIView.post
ConfirmBooking(actor, pk) ==
  /\ IF pk \notin DOMAIN bookings
       THEN /\ bookings' = bookings
            /\ last' = Response("confirm", pk, 404, "not_found")
     ELSE IF ~IsElevated(actor)
       THEN /\ bookings' = bookings
            /\ last' = Response("confirm", pk, 403, "only_staff")
     ELSE /\ bookings' = [bookings EXCEPT ![pk] = SaveBooking([@ EXCEPT !.status = "CONFIRMED"])]
          /\ last' = Response("confirm", pk, 200, "none")
  /\ UNCHANGED <<payments, reviews, reqs>>

-----------------------------------------------------------------------------
(* serializers.py / views.py: payments *)

PaymentData(booking, amount, status) == [booking |-> booking, amount |-> amount, status |-> status]

\* PaymentSerializer field validation and validate()
PaymentIsValid(bks, data) ==
  IF data.booking \notin DOMAIN bks THEN "invalid_field"
  ELSE IF data.status # NoStatus /\ data.status \notin PAYMENT_STATUS THEN "invalid_field"
  ELSE IF data.amount # 0 /\ data.amount # bks[data.booking].total_amount THEN "amount_mismatch"
  ELSE "ok"

\* Payment row stored by serializer.save()
NewPayment(data) ==
  [booking |-> data.booking, amount |-> data.amount,
   status |-> IF data.status = NoStatus THEN "PENDING" ELSE data.status]

\* PaymentListCreateAPIView.post
CreatePayment(actor, data) ==
  LET err == PaymentIsValid(bookings, data)
      payment == NewPayment(data)
  IN
  /\ (err = "ok" => Len(payments) < MaxPayments)
  /\ IF err # "ok"
       THEN /\ UNCHANGED <<bookings, payments>>
            /\ last' = Response("payment", data.booking, 400, err)
       ELSE /\ payments' = Append(payments, payment)
            /\ bookings' = IF payment.status = "COMPLETED"
                             THEN [bookings EXCEPT ![data.booking] =
                                       SaveBooking([@ EXCEPT !.status = "CONFIRMED"])]
                             ELSE bookings
            /\ last' = Response("payment", data.booking, 201, "none")
  /\ UNCHANGED <<reviews, reqs>>

-----------------------------------------------------------------------------
(* Initial state: empty tables, no response yet, no request in flight *)

Slots == 1..MaxInflight

NoData == BookingData(NoId, NoDate, NoDate, NoInt, NoInt, NoStatus, "")

IdleRequest == [pc |-> "idle", actor |-> "", data |-> NoData, code |-> 0]

Init ==
  /\ bookings = <<>>
  /\ payments = <<>>
  /\ reviews = <<>>
  /\ last = Response("none", NoId, 0, "none")
  /\ reqs = [slot \in Slots |-> IdleRequest]

-----------------------------------------------------------------------------
(* The sequential specification: every request runs to completion.  The     *)
(* request bodies are drawn from small sets: every date pair on the bookable *)
(* rooms, one request on each room outside the room_id queryset, a request   *)
(* that supplies each status, two parties over the room's capacity.          *)

CreateActors == {"alice"}

CreateInputs ==
  {BookingData(r, ci, co, NoInt, NoInt, NoStatus, "") : r \in RoomQueryset, ci \in Days, co \in Days}
  \cup {BookingData(r, 1, 2, NoInt, NoInt, NoStatus, "") : r \in RoomIds \ RoomQueryset}
  \cup {BookingData(1, 1, MaxDay, NoInt, NoInt, s, "") : s \in STATUS_CHOICES}
  \cup {BookingData(1, 1, 2, 2, 1, NoStatus, ""), BookingData(1, 1, 2, 3, NoInt, NoStatus, "")}

UpdateInputs ==
  {BookingData(NoId, NoDate, NoDate, NoInt, NoInt, s, "") : s \in STATUS_CHOICES}

PaymentInputs ==
  {PaymentData(b, amt, "COMPLETED") : b \in 1..MaxBookings, amt \in {150, 300}}

BookingPks == 1..MaxBookings

Next ==
  \/ \E actor \in CreateActors, data \in CreateInputs : CreateBooking(actor, data)
  \/ \E actor \in Users, pk \in BookingPks, data \in UpdateInputs : UpdateBooking(actor, pk, data)
  \/ \E actor \in Users, pk \in BookingPks : CancelBooking(actor, pk)
  \/ \E actor \in Users, pk \in BookingPks : ConfirmBooking(actor, pk)
  \/ \E actor \in Users, data \in PaymentInputs : CreatePayment(actor, data)

Spec == Init /\ [][Next]_vars

\* The booking endpoints alone
BookingNext ==
  \/ \E actor \in CreateActors, data \in CreateInputs : CreateBooking(actor, data)
  \/ \E actor \in Users, pk \in BookingPks, data \in UpdateInputs : UpdateBooking(actor, pk, data)
  \/ \E actor \in Users, pk \in BookingPks : CancelBooking(actor, pk)
  \/ \E actor \in Users, pk \in BookingPks : ConfirmBooking(actor, pk)

BookingSpec == Init /\ [][BookingNext]_vars

-----------------------------------------------------------------------------
(* The specification of date changes: creation, and PUT requests that send   *)
(* one date, both dates, or the room with both dates.                        *)

DateCreateInputs ==
  {BookingData(r, ci, co, NoInt, NoInt, NoStatus, "") : r \in RoomQueryset, ci \in Days, co \in Days}

DateUpdateInputs ==
  {BookingData(NoId, ci, NoDate, NoInt, NoInt, NoStatus, "") : ci \in Days}
  \cup {BookingData(NoId, NoDate, co, NoInt, NoInt, NoStatus, "") : co \in Days}
  \cup {BookingData(r, ci, co, NoInt, NoInt, NoStatus, "") : r \in {NoId, 1}, ci \in Days, co \in Days}

DateNext ==
  \/ \E actor \in CreateActors, data \in DateCreateInputs : CreateBooking(actor, data)
  \/ \E actor \in Users, pk \in BookingPks, data \in DateUpdateInputs : UpdateBooking(actor, pk, data)

DateSpec == Init /\ [][DateNext]_vars

-----------------------------------------------------------------------------
(* The specification of payments: creation of bookings, and payment requests *)
(* with every amount of interest (zero, one night, two nights) and with the  *)
(* status left out or sent.                                                  *)

PayAmounts == {0} \cup {n * RoomTypes[t].base_price : n \in 1..(MaxDay - 1), t \in DOMAIN RoomTypes}

PayInputs ==
  {PaymentData(b, a, s) : b \in BookingPks, a \in PayAmounts, s \in {NoStatus, "COMPLETED", "FAILED"}}

PayNext ==
  \/ \E actor \in CreateActors, data \in DateCreateInputs : CreateBooking(actor, data)
  \/ \E actor \in Users, data \in PayInputs : CreatePayment(actor, data)

PaySpec == Init /\ [][PayNext]_vars

-----------------------------------------------------------------------------
(* models.py: Payment.save and the paid_at column.  The payment rows of this *)
(* specification carry paid_at, and every save reads the clock.              *)

Times == 1..MaxTime

\* Payment(**validated_data): the instance before its first save
PaymentInstance(data) ==
  [booking |-> data.booking, amount |-> data.amount,
   status |-> IF data.status = NoStatus THEN "PENDING" ELSE data.status,
   paid_at |-> NoDate]

PaymentSaveAlwaysStamps(p, now) ==
  IF p.status = "COMPLETED" THEN [p EXCEPT !.paid_at = now] ELSE p

\* Payment.save
PaymentSave(p, now) ==
  IF p.status = "COMPLETED" /\ p.paid_at = NoDate THEN [p EXCEPT !.paid_at = now] ELSE p

\* PaymentListCreateAPIView.post, the stored row with its paid_at
CreatePaymentAt(actor, data, now) ==
  LET err == PaymentIsValid(bookings, data)
      payment == PaymentSave(PaymentInstance(data), now)
  IN
  /\ (err = "ok" => Len(payments) < MaxPayments)
  /\ IF err # "ok"
       THEN /\ UNCHANGED <<bookings, payments>>
            /\ last' = Response("payment", data.booking, 400, err)
       ELSE /\ payments' = Append(payments, payment)
            /\ bookings' = IF payment.status = "COMPLETED"
                             THEN [bookings EXCEPT ![data.booking] =
                                       SaveBooking([@ EXCEPT !.status = "CONFIRMED"])]
                             ELSE bookings
            /\ last' = Response("payment", data.booking, 201, "none")
  /\ UNCHANGED <<reviews, reqs>>

\* A later save() of a stored payment, its status assigned first; last keeps
\* the clock reading of the save
SavePayment(i, status, now) ==
  /\ i \in DOMAIN payments
  /\ payments' = [payments EXCEPT ![i] = PaymentSave([@ EXCEPT !.status = status], now)]
  /\ last' = [op |-> "save", pk |-> i, code |-> 0, error |-> "none", at |-> now]
  /\ UNCHANGED <<bookings, reviews, reqs>>

SaveCreateInputs == {BookingData(1, 1, 2, NoInt, NoInt, NoStatus, "")}

SavePayInputs ==
  {PaymentData(1, RoomTypes[1].base_price, s) : s \in {NoStatus, "COMPLETED"}}

SaveNext ==
  \/ \E actor \in CreateActors, data \in SaveCreateInputs : CreateBooking(actor, data)
  \/ \E actor \in Users, data \in SavePayInputs, now \in Times : CreatePaymentAt(actor, data, now)
  \/ \E i \in 1..MaxPayments, status \in PAYMENT_STATUS, now \in Times : SavePayment(i, status, now)

SaveSpec == Init /\ [][SaveNext]_vars

-----------------------------------------------------------------------------
(* The specification of party sizes: creation and PUT requests with the      *)
(* adults and children keys left out or sent, up to one guest more than the  *)
(* largest room type holds.                                                  *)

MaxCapacity == CHOOSE c \in {RoomTypes[t].capacity : t \in DOMAIN RoomTypes} :
                 \A t \in DOMAIN RoomTypes : RoomTypes[t].capacity <= c

PartyAdults == {NoInt} \cup (0..(MaxCapacity + 1))

PartyChildren == {NoInt} \cup (0..MaxCapacity)

PartyCreateInputs ==
  {BookingData(r, ci, ci + 1, a, c, NoStatus, "") :
     r \in RoomQueryset, ci \in 1..(MaxDay - 1), a \in PartyAdults, c \in PartyChildren}
  \cup {BookingData(r, 1, 2, MaxCapacity, 1, NoStatus, "") : r \in RoomIds \ RoomQueryset}

PartyUpdateInputs ==
  {BookingData(r, NoDate, NoDate, a, c, NoStatus, "") :
     r \in {NoId, 1}, a \in {NoInt, 0, MaxCapacity + 1}, c \in {NoInt, 1}}

PartyNext ==
  \/ \E actor \in CreateActors, data \in PartyCreateInputs : CreateBooking(actor, data)
  \/ \E actor \in CreateActors, pk \in BookingPks, data \in PartyUpdateInputs : UpdateBooking(actor, pk, data)

PartySpec == Init /\ [][PartyNext]_vars

-----------------------------------------------------------------------------
(* serializers.py / views.py: the availability query.  today is the date the *)
(* clock shows when the query is validated.                                  *)

MaxGuests == 10

AvailabilityData(check_in, check_out, adults, children, hotel_id) ==
  [check_in |-> check_in, check_out |-> check_out,
   adults |-> adults, children |-> children, hotel_id |-> hotel_id]

\* AvailabilitySerializer fields: required dates, adults in 1..10, children in 0..10
AvailabilityFieldErrors(q) ==
  \/ q.check_in = NoDate
  \/ q.check_out = NoDate
  \/ (q.adults # NoInt /\ (q.adults < 1 \/ q.adults > MaxGuests))
  \/ (q.children # NoInt /\ (q.children < 0 \/ q.children > MaxGuests))

AvailabilityValidateNoGuestCap(q, today) ==
  IF q.check_in >= q.check_out THEN "invalid_range"
  ELSE IF q.check_in < today THEN "past_check_in"
  ELSE "ok"

\* AvailabilitySerializer.validate
AvailabilityValidate(q, today) ==
  LET adults == IF q.adults = NoInt THEN 1 ELSE q.adults
      children == IF q.children = NoInt THEN 0 ELSE q.children
  IN  IF q.check_in >= q.check_out THEN "invalid_range"
      ELSE IF q.check_in < today THEN "past_check_in"
      ELSE IF adults + children > MaxGuests THEN "too_many_guests"
      ELSE "ok"

\* serializer.is_valid(raise_exception=True)
AvailabilityIsValid(q, today) ==
  IF AvailabilityFieldErrors(q) THEN "invalid_field" ELSE AvailabilityValidate(q, today)

\* conflicting_bookings: the room ids of the blocking bookings that overlap
AvailabilityConflicts(bks, check_in, check_out) ==
  {bks[i].room : i \in {j \in DOMAIN bks : /\ bks[j].check_in_date < check_out
                                           /\ bks[j].check_out_date > check_in
                                           /\ bks[j].status \in BlockingStatuses}}

AvailableRoomsAnyCapacity(bks, q) ==
  LET conflicting_bookings == AvailabilityConflicts(bks, q.check_in, q.check_out)
      available_rooms == {r \in RoomIds : /\ Rooms[r].is_active
                                          /\ Rooms[r].status = "AVAILABLE"
                                          /\ r \notin conflicting_bookings}
  IN  IF q.hotel_id # NoInt /\ q.hotel_id # 0
        THEN {r \in available_rooms : RoomTypes[Rooms[r].room_type].hotel = q.hotel_id}
        ELSE available_rooms

\* available_rooms; a hotel_id of 0 is falsy and filters nothing
AvailableRooms(bks, q) ==
  LET adults == IF q.adults = NoInt THEN 1 ELSE q.adults
      children == IF q.children = NoInt THEN 0 ELSE q.children
      total_guests == adults + children
      conflicting_bookings == AvailabilityConflicts(bks, q.check_in, q.check_out)
      available_rooms == {r \in RoomIds : /\ Rooms[r].is_active
                                          /\ Rooms[r].status = "AVAILABLE"
                                          /\ Capacity(r) >= total_guests
                                          /\ r \notin conflicting_bookings}
  IN  IF q.hotel_id # NoInt /\ q.hotel_id # 0
        THEN {r \in available_rooms : RoomTypes[Rooms[r].room_type].hotel = q.hotel_id}
        ELSE available_rooms

RoomDataNoFallback(r, check_in, check_out) ==
  LET nights == check_out - check_in IN
  [room |-> r, total_nights |-> nights, total_price |-> nights * price_per_night(r)]

\* one entry of room_data
RoomData(r, check_in, check_out) ==
  LET nights == check_out - check_in IN
  [room |-> r, total_nights |-> nights,
   total_price |-> IF nights > 0 THEN nights * price_per_night(r) ELSE price_per_night(r)]

\* AvailabilityAPIView.get
AvailabilityGet(q, today) ==
  LET err == AvailabilityIsValid(q, today)
      adults == IF q.adults = NoInt THEN 1 ELSE q.adults
      children == IF q.children = NoInt THEN 0 ELSE q.children
  IN
  /\ last' = IF err # "ok"
               THEN Response("availability", NoId, 400, err)
               ELSE [op |-> "availability", pk |-> NoId, code |-> 200, error |-> "none",
                     check_in |-> q.check_in, check_out |-> q.check_out,
                     total_guests |-> adults + children,
                     available_rooms |-> {RoomData(r, q.check_in, q.check_out) :
                                            r \in AvailableRooms(bookings, q)}]
  /\ UNCHANGED <<bookings, payments, reviews, reqs>>

HotelIds == {RoomTypes[t].hotel : t \in DOMAIN RoomTypes}

Todays == 1..(MaxDay - 1)

AvailQueries ==
  {AvailabilityData(ci, co, NoInt, NoInt, h) : ci \in Days, co \in Days, h \in {NoInt, 0} \cup HotelIds}
  \cup {AvailabilityData(ci, co, MaxCapacity, NoInt, NoInt) : ci \in Days, co \in Days}
  \cup {AvailabilityData(1, 2, a, c, NoInt) :
          a \in {0, 1, MaxCapacity, MaxGuests, MaxGuests + 1}, c \in {NoInt, 1}}
  \cup {AvailabilityData(1, NoDate, NoInt, NoInt, NoInt)}

AvailNext ==
  \/ \E actor \in CreateActors, data \in DateCreateInputs : CreateBooking(actor, data)
  \/ \E actor \in CreateActors, pk \in BookingPks, data \in UpdateInputs : UpdateBooking(actor, pk, data)
  \/ \E q \in AvailQueries, today \in Todays : AvailabilityGet(q, today)

AvailSpec == Init /\ [][AvailNext]_vars

-----------------------------------------------------------------------------
(* serializers.py / views.py: reviews, and the specification of the records  *)
(* that hang on a booking: its payments and its review.                      *)

ReviewData(booking, rating) == [booking |-> booking, rating |-> rating]

\* ReviewSerializer: the booking_id queryset (CHECKED_OUT bookings), the
\* rating validators, validate(), and the one-to-one constraint of the table
ReviewIsValid(bks, rvs, actor, data) ==
  IF data.booking \notin {i \in DOMAIN bks : bks[i].status = "CHECKED_OUT"} THEN "invalid_field"
  ELSE IF data.rating < 1 \/ data.rating > 5 THEN "invalid_field"
  ELSE IF bks[data.booking].user # actor THEN "not_own_booking"
  ELSE IF \E i \in DOMAIN rvs : rvs[i].booking = data.booking /\ rvs[i].user = actor
    THEN "already_reviewed"
  ELSE IF \E i \in DOMAIN rvs : rvs[i].booking = data.booking THEN "integrity_error"
  ELSE "ok"

\* ReviewListCreateAPIView.post
CreateReview(actor, data) ==
  LET err == ReviewIsValid(bookings, reviews, actor, data) IN
  /\ IF err = "ok"
       THEN /\ reviews' = Append(reviews, [user |-> actor, booking |-> data.booking,
                                            rating |-> data.rating])
            /\ last' = Response("review", data.booking, 201, "none")
       ELSE /\ reviews' = reviews
            /\ last' = Response("review", data.booking,
                                IF err = "integrity_error" THEN 500 ELSE 400, err)
  /\ UNCHANGED <<bookings, payments, reqs>>

ReviewCreateInputs ==
  {BookingData(1, ci, ci + 1, NoInt, NoInt, NoStatus, "") : ci \in 1..(MaxDay - 1)}

ReviewInputs == {ReviewData(b, r) : b \in BookingPks, r \in {0, 5}}

ReviewNext ==
  \/ \E actor \in CreateActors, data \in ReviewCreateInputs : CreateBooking(actor, data)
  \/ \E actor \in CreateActors, pk \in BookingPks, data \in UpdateInputs : UpdateBooking(actor, pk, data)
  \/ \E actor \in Users, pk \in BookingPks : CancelBooking(actor, pk)
  \/ \E actor \in CreateActors, data \in PaymentInputs : CreatePayment(actor, data)
  \/ \E actor \in {"alice", "bob"}, data \in ReviewInputs : CreateReview(actor, data)

ReviewSpec == Init /\ [][ReviewNext]_vars

-----------------------------------------------------------------------------
(* The specification of prices: availability queries over a calendar one day *)
(* longer than the bookings', so that a stay of MaxDay nights is priced.     *)

QueryDays == 1..(MaxDay + 1)

PriceQueries ==
  {AvailabilityData(ci, co, NoInt, NoInt, NoInt) : ci \in QueryDays, co \in QueryDays}

PriceNext ==
  \/ \E actor \in CreateActors, data \in ReviewCreateInputs : CreateBooking(actor, data)
  \/ \E actor \in CreateActors, pk \in BookingPks : CancelBooking(actor, pk)
  \/ \E q \in PriceQueries, today \in Todays : AvailabilityGet(q, today)

PriceSpec == Init /\ [][PriceNext]_vars

-----------------------------------------------------------------------------
(* The interleaved specification: BookingListCreateAPIView.post runs in two  *)
(* steps, serializer.is_valid() and serializer.save(); the view opens no     *)
(* transaction and takes no lock, so the steps of two requests interleave.   *)

\* post, first statement: serializer.is_valid() reads the bookings table
CreateIsValid(slot, actor, data) ==
  LET err == IsValid(bookings, data, NoId, FALSE) IN
  /\ reqs[slot].pc = "idle"
  /\ IF err = "ok"
       THEN /\ reqs' = [reqs EXCEPT ![slot] = [pc |-> "validated", actor |-> actor, data |-> data, code |-> 0]]
            /\ last' = last
       ELSE /\ reqs' = [reqs EXCEPT ![slot] = [pc |-> "done", actor |-> actor, data |-> data, code |-> 400]]
            /\ last' = Response("create", NoId, 400, err)
  /\ UNCHANGED <<bookings, payments, reviews>>

\* post, second statement: serializer.save() inserts the row
CreateSave(slot) ==
  /\ reqs[slot].pc = "validated"
  /\ Len(bookings) < MaxBookings
  /\ bookings' = Append(bookings, NewBooking(reqs[slot].actor, reqs[slot].data))
  /\ reqs' = [reqs EXCEPT ![slot].pc = "done", ![slot].code = 201]
  /\ last' = Response("create", Len(bookings) + 1, 201, "none")
  /\ UNCHANGED <<payments, reviews>>

ConcCreateInputs ==
  {BookingData(r, ci, co, NoInt, NoInt, NoStatus, "") : r \in RoomQueryset, ci \in Days, co \in Days}

ConcNext ==
  \/ \E slot \in Slots, actor \in CreateActors, data \in ConcCreateInputs : CreateIsValid(slot, actor, data)
  \/ \E slot \in Slots : CreateSave(slot)

ConcSpec == Init /\ [][ConcNext]_vars

-----------------------------------------------------------------------------
(* The payment request in steps: PaymentListCreateAPIView.post writes the    *)
(* payment row (serializer.save()) and then the booking (booking.save()).    *)
(* The view opens no transaction, so each write is committed on its own and  *)
(* a request that ends between them (an exception of the second save, a      *)
(* killed worker) rolls nothing back.                                        *)

\* post, up to payment = serializer.save(): validation and the first write
PaymentSaveStep(slot, actor, data) ==
  LET err == PaymentIsValid(bookings, data) IN
  /\ reqs[slot].pc = "idle"
  /\ (err = "ok" => Len(payments) < MaxPayments)
  /\ IF err # "ok"
       THEN /\ payments' = payments
            /\ reqs' = [reqs EXCEPT ![slot] = [pc |-> "done", actor |-> actor, data |-> data,
                                                code |-> 400, payment |-> NoId]]
            /\ last' = Response("payment", data.booking, 400, err)
       ELSE /\ payments' = Append(payments, NewPayment(data))
            /\ reqs' = [reqs EXCEPT ![slot] = [pc |-> "saved", actor |-> actor, data |-> data,
                                                code |-> 0, payment |-> Len(payments) + 1]]
            /\ last' = last
  /\ UNCHANGED <<bookings, reviews>>

\* post, from the status test to the response: the second write
PaymentConfirmStep(slot) ==
  /\ reqs[slot].pc = "saved"
  /\ bookings' = IF payments[reqs[slot].payment].status = "COMPLETED"
                   THEN [bookings EXCEPT ![reqs[slot].data.booking] =
                             SaveBooking([@ EXCEPT !.status = "CONFIRMED"])]
                   ELSE bookings
  /\ reqs' = [reqs EXCEPT ![slot].pc = "done", ![slot].code = 201]
  /\ last' = Response("payment", reqs[slot].data.booking, 201, "none")
  /\ UNCHANGED <<payments, reviews>>

\* the request ends after the first write and before the second
PaymentAbort(slot) ==
  /\ reqs[slot].pc = "saved"
  /\ reqs' = [reqs EXCEPT ![slot].pc = "aborted", ![slot].code = 500]
  /\ last' = Response("payment", reqs[slot].data.booking, 500, "aborted")
  /\ UNCHANGED <<bookings, payments, reviews>>

AbortNext ==
  \/ \E actor \in CreateActors, data \in SaveCreateInputs : CreateBooking(actor, data)
  \/ \E actor \in CreateActors, pk \in BookingPks : CancelBooking(actor, pk)
  \/ \E slot \in Slots, actor \in CreateActors, data \in SavePayInputs : PaymentSaveStep(slot, actor, data)
  \/ \E slot \in Slots : PaymentConfirmStep(slot)
  \/ \E slot \in Slots : PaymentAbort(slot)

AbortSpec == Init /\ [][AbortNext]_vars

-----------------------------------------------------------------------------
(* Properties *)

Blocking(b) == b.status \in {"PENDING", "CONFIRMED", "CHECKED_IN"}

RangesOverlap(a_in, a_out, b_in, b_out) == a_in < b_out /\ b_in < a_out

\* C1: no two distinct bookings on the same room, both with a blocking
\* status, have overlapping date ranges, in any state reached by completed
\* requests.
C1_NoDoubleBooking ==
  \A i, j \in DOMAIN bookings :
    (i # j /\ bookings[i].room = bookings[j].room /\ Blocking(bookings[i]) /\ Blocking(bookings[j]))
      => ~RangesOverlap(bookings[i].check_in_date, bookings[i].check_out_date,
                        bookings[j].check_in_date, bookings[j].check_out_date)

\* C2: of two interleaved creation requests for the same room with
\* overlapping ranges at most one succeeds (the re-check and the insert are
\* one atomic unit).
C2_AtMostOneCreateSucceeds ==
  \A s1, s2 \in Slots :
    (s1 # s2 /\ reqs[s1].code = 201 /\ reqs[s2].code = 201
       /\ reqs[s1].data.room = reqs[s2].data.room)
      => ~RangesOverlap(reqs[s1].data.check_in_date, reqs[s1].data.check_out_date,
                        reqs[s2].data.check_in_date, reqs[s2].data.check_out_date)

\* C3: a creation request for a range that overlaps a stored blocking booking
\* on the same room is rejected and leaves the bookings table unchanged; the
\* error is the room-unavailable one (the conflict error when the request
\* passes the range and capacity rules, else the capacity error).
C3_OverlapRejected ==
  [][last'.op = "create" => \A actor \in CreateActors, data \in CreateInputs :
       (/\ data.check_in_date < data.check_out_date
        /\ \E i \in DOMAIN bookings :
             /\ bookings[i].room = data.room
             /\ Blocking(bookings[i])
             /\ RangesOverlap(bookings[i].check_in_date, bookings[i].check_out_date,
                              data.check_in_date, data.check_out_date)
        /\ CreateBooking(actor, data))
       => /\ bookings' = bookings
          /\ last'.op = "create" /\ last'.code = 400
          /\ last'.error \in {"room_unavailable", "capacity_exceeded"}
          /\ ((IF data.adults = NoInt THEN 1 ELSE data.adults)
                + (IF data.children = NoInt THEN 0 ELSE data.children)
                <= RoomTypes[Rooms[data.room].room_type].capacity
              => last'.error = "room_unavailable")]_vars

C3_Witness ==
  /\ last.op = "create" /\ last.code = 400 /\ last.error = "room_unavailable"
  /\ \E i \in DOMAIN bookings : Blocking(bookings[i])

StatusEdges ==
  {<<"PENDING", "CONFIRMED">>, <<"PENDING", "CANCELLED">>,
   <<"CONFIRMED", "CHECKED_IN">>, <<"CONFIRMED", "CANCELLED">>, <<"CONFIRMED", "NO_SHOW">>,
   <<"CHECKED_IN", "CHECKED_OUT">>}

\* C4: at every step a booking's status stays the same or moves along an
\* edge of the transition table; terminal statuses never change.
C4_StatusMachine ==
  [][\A pk \in DOMAIN bookings :
       \/ bookings'[pk].status = bookings[pk].status
       \/ <<bookings[pk].status, bookings'[pk].status>> \in StatusEdges]_vars

\* C5: cancel succeeds only from PENDING or CONFIRMED and then stores
\* CANCELLED; from any other status it fails and leaves the booking unchanged.
C5_CancelOnlyFromOpen ==
  [][\A actor \in Users, pk \in DOMAIN bookings :
       CancelBooking(actor, pk)
       => IF bookings[pk].status \in {"PENDING", "CONFIRMED"}
            THEN last'.code = 204 => bookings'[pk].status = "CANCELLED"
            ELSE last'.code # 204 /\ bookings' = bookings]_vars

\* C6: confirm succeeds only from PENDING; from any other status it fails and
\* leaves the status unchanged.
C6_ConfirmOnlyFromPending ==
  [][\A actor \in Users, pk \in DOMAIN bookings :
       (ConfirmBooking(actor, pk) /\ bookings[pk].status # "PENDING")
       => last'.code # 200 /\ bookings'[pk].status = bookings[pk].status]_vars

\* C7: a confirm request by an actor who is neither staff nor admin fails
\* with the permission error and changes nothing stored; by a staff or admin
\* actor on a PENDING booking it stores CONFIRMED.
C7_ConfirmNeedsElevatedRole ==
  [][last'.op = "confirm" => \A actor \in Users, pk \in DOMAIN bookings :
       ConfirmBooking(actor, pk)
       => IF Role(actor) \in {"staff", "admin"}
            THEN bookings[pk].status = "PENDING"
                   => (bookings'[pk].status = "CONFIRMED" /\ last'.code = 200)
            ELSE /\ last'.code = 403 /\ last'.error = "only_staff"
                 /\ bookings' = bookings /\ payments' = payments]_vars

C7_Witness ==
  /\ last.op = "confirm" /\ last.code = 403 /\ last.error = "only_staff"
  /\ last.pk \in DOMAIN bookings
  /\ bookings[last.pk].status = "PENDING"

\* C8: a stored COMPLETED payment moves its booking to CONFIRMED when the
\* booking was PENDING and leaves every other status alone; a payment that is
\* not COMPLETED never changes the booking's status.
C8_PaymentConfirmsOnlyPending ==
  [][\A actor \in Users, data \in PaymentInputs :
       (CreatePayment(actor, data) /\ last'.code = 201)
       => bookings'[data.booking].status =
            IF data.status = "COMPLETED" /\ bookings[data.booking].status = "PENDING"
              THEN "CONFIRMED"
              ELSE bookings[data.booking].status]_vars

\* C9: no booking ever has two stored COMPLETED payments (the second one is
\* refused with the already-paid error).
C9_AtMostOneCompletedPayment ==
  \A i, j \in DOMAIN payments :
    (payments[i].booking = payments[j].booking
       /\ payments[i].status = "COMPLETED" /\ payments[j].status = "COMPLETED")
      => i = j

\* C10: the booking stored by a successful creation request has status
\* PENDING, whatever the request supplied.
C10_CreatedPending ==
  (last.op = "create" /\ last.code = 201) => bookings[last.pk].status = "PENDING"

\* C11: every stored booking's total_amount is the number of nights of its
\* range times the nightly rate of its room, after creation and after any
\* update of its dates or room.
C11_TotalAmountIsNightsTimesRate ==
  \A pk \in DOMAIN bookings :
    bookings[pk].total_amount =
      (bookings[pk].check_out_date - bookings[pk].check_in_date)
        * RoomTypes[Rooms[bookings[pk].room].room_type].base_price

\* C14: every stored booking has check_in_date < check_out_date, after
\* creation and after any update, a partial update with one date included.
C14_StoredRangeOrdered ==
  \A pk \in DOMAIN bookings : bookings[pk].check_in_date < bookings[pk].check_out_date

\* C12: every stored payment has the amount of its booking's total_amount;
\* a payment request with any other amount, zero included, stores nothing.
C12_PaymentAmountMatchesTotal ==
  \A i \in DOMAIN payments :
    /\ payments[i].booking \in DOMAIN bookings
    /\ payments[i].amount = bookings[payments[i].booking].total_amount

\* C13: a save of a COMPLETED payment whose paid_at is unset sets paid_at to
\* the clock reading of that save, and no save changes a paid_at that is set:
\* a second save of the same COMPLETED payment leaves paid_at equal.
C13_PaidAtSetOnce ==
  [][/\ \A i \in DOMAIN payments :
          payments[i].paid_at # NoDate => payments'[i].paid_at = payments[i].paid_at
     /\ \A i \in DOMAIN payments' :
          payments'[i].status = "COMPLETED" => payments'[i].paid_at \in Times
     /\ last'.op = "save" =>
          \A i \in DOMAIN payments, now \in Times :
            (/\ payments[i].paid_at = NoDate
             /\ SavePayment(i, "COMPLETED", now)) => payments'[i].paid_at = now]_vars

\* a COMPLETED payment stamped at one clock reading has been saved again at
\* another
C13_Witness ==
  /\ last.op = "save"
  /\ last.pk \in DOMAIN payments
  /\ payments[last.pk].status = "COMPLETED"
  /\ payments[last.pk].paid_at \in Times
  /\ payments[last.pk].paid_at # last.at

\* C15: a creation request whose adults + children (defaults 1 and 0 for the
\* keys left out) exceed the capacity of the room's type answers 400 with a
\* validation error and stores nothing; the error is the capacity error when
\* the room is bookable.
C15_OverCapacityRejected ==
  [][last'.op = "create" =>
       \A actor \in CreateActors, data \in PartyCreateInputs :
         LET adults == IF data.adults = NoInt THEN 1 ELSE data.adults
             children == IF data.children = NoInt THEN 0 ELSE data.children
             room == Rooms[data.room]
         IN  (/\ adults + children > RoomTypes[room.room_type].capacity
              /\ CreateBooking(actor, data))
             => /\ last'.code = 400
                /\ last'.error # "none"
                /\ (room.is_active /\ room.status = "AVAILABLE" => last'.error = "capacity_exceeded")
                /\ bookings' = bookings
                /\ payments' = payments]_vars

\* a creation has been refused for its party size while a booking is stored
C15_Witness ==
  /\ last = Response("create", NoId, 400, "capacity_exceeded")
  /\ Len(bookings) >= 1

\* C16: the rooms of the answer to an accepted availability query are
\* exactly the rooms that are active, AVAILABLE, of capacity >= adults +
\* children, of the given hotel when hotel_id is supplied, and without a
\* blocking booking that overlaps the queried range.
C16_AvailabilityExact ==
  [][(last'.op = "availability" /\ last'.code = 200) =>
       \A q \in AvailQueries, today \in Todays :
         (/\ q.check_in = last'.check_in
          /\ q.check_out = last'.check_out
          /\ AvailabilityGet(q, today))
         => LET adults == IF q.adults = NoInt THEN 1 ELSE q.adults
                children == IF q.children = NoInt THEN 0 ELSE q.children
            IN  {x.room : x \in last'.available_rooms} =
                  {r \in RoomIds :
                     /\ Rooms[r].is_active
                     /\ Rooms[r].status = "AVAILABLE"
                     /\ RoomTypes[Rooms[r].room_type].capacity >= adults + children
                     /\ (q.hotel_id # NoInt => RoomTypes[Rooms[r].room_type].hotel = q.hotel_id)
                     /\ ~\E i \in DOMAIN bookings :
                           /\ bookings[i].room = r
                           /\ bookings[i].status \in {"PENDING", "CONFIRMED", "CHECKED_IN"}
                           /\ q.check_in < bookings[i].check_out_date
                           /\ bookings[i].check_in_date < q.check_out}]_vars

\* C17: no availability query with adults < 1 or adults + children > 10 is
\* accepted: every query answered 200 has adults >= 1 and adults + children
\* <= 10, and every step of the endpoint answers 200 or 400 and changes no
\* table.
C17_GuestLimits ==
  [][last'.op = "availability" =>
       /\ last'.code \in {200, 400}
       /\ bookings' = bookings
       /\ payments' = payments
       /\ last'.code = 200 =>
            \A q \in AvailQueries, today \in Todays :
              (/\ q.check_in = last'.check_in
               /\ q.check_out = last'.check_out
               /\ AvailabilityGet(q, today))
              => LET adults == IF q.adults = NoInt THEN 1 ELSE q.adults
                     children == IF q.children = NoInt THEN 0 ELSE q.children
                 IN  /\ adults >= 1
                     /\ adults + children <= 10
                     /\ last'.total_guests = adults + children]_vars

\* a query has been refused for its party of more than 10 guests
C17_Witness ==
  last = Response("availability", NoId, 400, "too_many_guests")

\* C18: a creation request naming a room that is inactive, or whose status
\* is OCCUPIED, MAINTENANCE or CLEANING, answers 400 and stores nothing; every
\* creation answered 201 stored a booking of an active AVAILABLE room.
C18_OnlyBookableRooms ==
  [][last'.op = "create" =>
       /\ last'.code = 201 =>
            /\ Rooms[bookings'[last'.pk].room].is_active
            /\ Rooms[bookings'[last'.pk].room].status = "AVAILABLE"
       /\ \A actor \in CreateActors, data \in CreateInputs :
            (/\ (~Rooms[data.room].is_active \/ Rooms[data.room].status # "AVAILABLE")
             /\ CreateBooking(actor, data))
            => /\ last'.code = 400
               /\ last'.error = "invalid_field"
               /\ bookings' = bookings
               /\ payments' = payments]_vars

\* a creation naming an unbookable room has been refused while a booking is
\* stored
C18_Witness ==
  /\ last = Response("create", NoId, 400, "invalid_field")
  /\ Len(bookings) >= 1

\* C19: a cancel request removes no record: the same bookings, payments and
\* reviews are stored after it, and no field of any booking changes except
\* the status of the cancelled booking, which becomes CANCELLED.
C19_CancelKeepsRecords ==
  [][last'.op = "delete" =>
       \A actor \in Users, pk \in BookingPks :
         (last'.pk = pk /\ CancelBooking(actor, pk))
         => /\ DOMAIN bookings' = DOMAIN bookings
            /\ payments' = payments
            /\ reviews' = reviews
            /\ \A i \in DOMAIN bookings : i # pk => bookings'[i] = bookings[i]
            /\ pk \in DOMAIN bookings =>
                 bookings'[pk] = [bookings[pk] EXCEPT !.status = bookings'[pk].status]
            /\ last'.code = 204 => bookings'[pk].status = "CANCELLED"]_vars

\* a booking with a payment and a review has been cancelled
C19_Witness ==
  /\ last = Response("delete", last.pk, 204, "none")
  /\ \E i \in DOMAIN payments : payments[i].booking = last.pk
  /\ \E i \in DOMAIN reviews : reviews[i].booking = last.pk
  /\ bookings[last.pk].status = "CANCELLED"

\* C20: for every room and every range [a_in, a_out) of the calendar, the
\* conflict query of creation and the conflict query of the availability
\* search report a conflict exactly when a stored blocking booking
\* [b_in, b_out) of the room has a_in < b_out and b_in < a_out; a creation
\* whose check-in is the check-out of a stored blocking booking is not refused
\* for a conflict with it.
C20_ConflictIffHalfOpenOverlap ==
  \A room \in RoomIds, a_in \in Days, a_out \in Days :
    a_in < a_out =>
      LET overlapping ==
            \E i \in DOMAIN bookings :
              /\ bookings[i].room = room
              /\ bookings[i].status \in {"PENDING", "CONFIRMED", "CHECKED_IN"}
              /\ a_in < bookings[i].check_out_date
              /\ bookings[i].check_in_date < a_out
      IN  /\ (ConflictingBookings(bookings, room, a_in, a_out, NoId) # {}) <=> overlapping
          /\ (room \in AvailabilityConflicts(bookings, a_in, a_out)) <=> overlapping
          /\ (room \in RoomQueryset /\ ~overlapping) =>
               IsValid(bookings, BookingData(room, a_in, a_out, NoInt, NoInt, NoStatus, ""),
                       NoId, FALSE) = "ok"

\* a back-to-back stay has been accepted: the booking just created checks in
\* on the day a blocking booking of the same room checks out
C20_Witness ==
  /\ last.op = "create" /\ last.code = 201
  /\ \E i \in DOMAIN bookings :
       /\ i # last.pk
       /\ bookings[i].room = bookings[last.pk].room
       /\ bookings[i].status \in {"PENDING", "CONFIRMED", "CHECKED_IN"}
       /\ bookings[i].check_out_date = bookings[last.pk].check_in_date

\* C21: a stored booking whose status is CHECKED_OUT, CANCELLED or NO_SHOW
\* takes no part in conflict detection: a creation on room R for a range that
\* overlaps only such bookings of R is accepted, and an availability query for
\* that range lists R when R passes the other filters.
C21_NonBlockingIgnored ==
  [][/\ last'.op = "create" =>
          \A actor \in CreateActors, data \in DateCreateInputs :
            (/\ data.check_in_date < data.check_out_date
             /\ \E i \in DOMAIN bookings :
                  /\ bookings[i].room = data.room
                  /\ bookings[i].status \in {"CHECKED_OUT", "CANCELLED", "NO_SHOW"}
                  /\ data.check_in_date < bookings[i].check_out_date
                  /\ bookings[i].check_in_date < data.check_out_date
             /\ ~\E i \in DOMAIN bookings :
                  /\ bookings[i].room = data.room
                  /\ bookings[i].status \in {"PENDING", "CONFIRMED", "CHECKED_IN"}
                  /\ data.check_in_date < bookings[i].check_out_date
                  /\ bookings[i].check_in_date < data.check_out_date
             /\ CreateBooking(actor, data))
            => /\ last'.code = 201
               /\ bookings'[last'.pk].room = data.room
               /\ bookings'[last'.pk].check_in_date = data.check_in_date
               /\ bookings'[last'.pk].check_out_date = data.check_out_date
     /\ (last'.op = "availability" /\ last'.code = 200) =>
          \A q \in AvailQueries, today \in Todays :
            (/\ q.check_in = last'.check_in
             /\ q.check_out = last'.check_out
             /\ AvailabilityGet(q, today))
            => \A r \in RoomIds :
                 (/\ Rooms[r].is_active
                  /\ Rooms[r].status = "AVAILABLE"
                  /\ RoomTypes[Rooms[r].room_type].capacity >= last'.total_guests
                  /\ (q.hotel_id = NoInt \/ RoomTypes[Rooms[r].room_type].hotel = q.hotel_id)
                  /\ \E i \in DOMAIN bookings :
                       /\ bookings[i].room = r
                       /\ bookings[i].status \in {"CHECKED_OUT", "CANCELLED", "NO_SHOW"}
                       /\ q.check_in < bookings[i].check_out_date
                       /\ bookings[i].check_in_date < q.check_out
                  /\ ~\E i \in DOMAIN bookings :
                       /\ bookings[i].room = r
                       /\ bookings[i].status \in {"PENDING", "CONFIRMED", "CHECKED_IN"}
                       /\ q.check_in < bookings[i].check_out_date
                       /\ bookings[i].check_in_date < q.check_out)
                 => r \in {x.room : x \in last'.available_rooms}]_vars

\* a booking has been created over the range of a stored non-blocking booking
\* of the same room
C21_Witness ==
  /\ last.op = "create" /\ last.code = 201
  /\ \E i \in DOMAIN bookings :
       /\ i # last.pk
       /\ bookings[i].room = bookings[last.pk].room
       /\ bookings[i].status \in {"CHECKED_OUT", "CANCELLED", "NO_SHOW"}
       /\ bookings[last.pk].check_in_date < bookings[i].check_out_date
       /\ bookings[i].check_in_date < bookings[last.pk].check_out_date

\* an availability answer lists a room that has an overlapping non-blocking
\* booking
C21_WitnessListed ==
  /\ last.op = "availability" /\ last.code = 200
  /\ \E x \in last.available_rooms, i \in DOMAIN bookings :
       /\ bookings[i].room = x.room
       /\ bookings[i].status \in {"CHECKED_OUT", "CANCELLED", "NO_SHOW"}
       /\ last.check_in < bookings[i].check_out_date
       /\ bookings[i].check_in_date < last.check_out

\* C22: every entry of an availability answer has total_nights = check_out -
\* check_in and total_price = total_nights times the nightly rate of its room;
\* for a range of zero or negative nights the entry computed for a room has
\* the price of one night, not zero.
C22_NightsAndPrice ==
  [][/\ (last'.op = "availability" /\ last'.code = 200) =>
          \A x \in last'.available_rooms :
            /\ x.total_nights = last'.check_out - last'.check_in
            /\ x.total_nights >= 1
            /\ x.total_price = x.total_nights * RoomTypes[Rooms[x.room].room_type].base_price
     /\ last'.op = "availability" =>
          \A check_in \in QueryDays, check_out \in QueryDays :
            check_out - check_in <= 0 =>
              \A r \in RoomIds :
                LET x == RoomData(r, check_in, check_out) IN
                /\ x.total_nights = check_out - check_in
                /\ x.total_price = RoomTypes[Rooms[r].room_type].base_price
                /\ x.total_price # 0]_vars

\* an availability answer prices a stay of MaxDay nights
C22_Witness ==
  /\ last.op = "availability" /\ last.code = 200
  /\ \E x \in last.available_rooms :
       /\ x.total_nights = MaxDay
       /\ x.total_price = MaxDay * RoomTypes[Rooms[x.room].room_type].base_price
       /\ x.total_price > RoomTypes[Rooms[x.room].room_type].base_price

\* C23: the two writes of a payment request are all-or-nothing: no state
\* holds the stored payment of an aborted request, and once no payment request
\* is between its writes, no COMPLETED payment belongs to a booking that is
\* still PENDING.
C23_PaymentAllOrNothing ==
  /\ \A slot \in Slots :
       (reqs[slot].pc = "aborted" /\ reqs[slot].data.status = "COMPLETED")
         => reqs[slot].payment \notin DOMAIN payments
  /\ (\A slot \in Slots : reqs[slot].pc # "saved") =>
       \A i \in DOMAIN payments :
         payments[i].status = "COMPLETED" => bookings[payments[i].booking].status # "PENDING"

\* C24: no request of a customer changes a stored field of a booking owned
\* by another user: a PUT or DELETE on it answers 403, a confirm answers 403,
\* and a payment request leaves its status as it was.
C24_CustomerCannotChangeOthers ==
  [][\A actor \in Users :
       Role(actor) = "customer" =>
         LET OthersUnchanged ==
               \A pk \in DOMAIN bookings :
                 bookings[pk].user # actor => bookings'[pk] = bookings[pk]
         IN
         /\ last'.op = "put" =>
              \A pk \in BookingPks, data \in UpdateInputs :
                (last'.pk = pk /\ UpdateBooking(actor, pk, data))
                => /\ OthersUnchanged
                   /\ (pk \in DOMAIN bookings /\ bookings[pk].user # actor) => last'.code = 403
         /\ last'.op = "delete" =>
              \A pk \in BookingPks :
                (last'.pk = pk /\ CancelBooking(actor, pk))
                => /\ OthersUnchanged
                   /\ (pk \in DOMAIN bookings /\ bookings[pk].user # actor) => last'.code = 403
         /\ last'.op = "confirm" =>
              \A pk \in BookingPks :
                (last'.pk = pk /\ ConfirmBooking(actor, pk)) => OthersUnchanged
         /\ last'.op = "payment" =>
              \A data \in PaymentInputs :
                (last'.pk = data.booking /\ CreatePayment(actor, data)) => OthersUnchanged]_vars

\* C25: for every accepted availability query without hotel filter, a room
\* is listed in the answer exactly when a creation request for that room with
\* the query's dates and party, validated against the same tables, is
\* accepted.
C25_AvailabilityAgreesWithCreation ==
  [][(last'.op = "availability" /\ last'.code = 200) =>
       \A q \in AvailQueries, today \in Todays :
         (/\ q.hotel_id = NoInt
          /\ q.check_in = last'.check_in
          /\ q.check_out = last'.check_out
          /\ AvailabilityGet(q, today))
         => \A r \in RoomIds :
              (r \in {x.room : x \in last'.available_rooms})
                <=> (IsValid(bookings', BookingData(r, q.check_in, q.check_out, q.adults,
                                                    q.children, NoStatus, ""),
                             NoId, FALSE) = "ok")]_vars

\* an answer for a party of two lists one bookable room and leaves out the
\* other
C25_Witness ==
  /\ last.op = "availability" /\ last.code = 200
  /\ last.total_guests = MaxCapacity
  /\ \E r \in RoomQueryset : r \in {x.room : x \in last.available_rooms}
  /\ \E r \in RoomQueryset : r \notin {x.room : x \in last.available_rooms}

\* C26: every stored booking has adults >= 1 and adults + children at most
\* the capacity of its room's type, after creation and after any update.
C26_StoredPartyFits ==
  \A pk \in DOMAIN bookings :
    /\ bookings[pk].adults >= 1
    /\ bookings[pk].adults + bookings[pk].children
         <= RoomTypes[Rooms[bookings[pk].room].room_type].capacity

====
